---- MODULE Spec2Model ----
(***************************************************************************)
(* A model of theBot.py (class SemanticFormFiller): the matcher            *)
(* find_best_match, the widget classifier get_field_type, the fill         *)
(* handlers (date, radio, dropdown, text), the fill pass fill_form and the *)
(* top-level run.                                                          *)
(*                                                                         *)
(* Conventions.                                                            *)
(*  - A text is a sequence of one-character strings.                       *)
(*  - A similarity is the cosine similarity in tenths (0.7 is 7).          *)
(*  - An option, a field or a selector is named by its 1-based position;   *)
(*    0 stands for Python's None (no field, no option).                    *)
(*  - The browser driver and the embedding model are external: what they   *)
(*    answer (texts, markers, similarities) and which driver call raises   *)
(*    (a "fault") are inputs of every handler.                             *)
(***************************************************************************)
EXTENDS Integers, Sequences, FiniteSets, TLC

VARIABLES
    call,        \* the last handler invocation: its inputs and what it did
    pc,          \* position of run() / fill_form()
    session,     \* the browser session: "none", "open", "closed"
    form_data,   \* the profile: the values of the fields 1..Len(form_data)
    nq,          \* number of questions get_form_questions returned
    qi,          \* 1-based index of the question being processed
    best_match,  \* fill_form's best_match for the current question (0: None)
    field_container, \* fill_form's field_container: the markers it holds
    field_type,  \* fill_form's field_type for the current question
    success,     \* fill_form's success for the current question
    processed,   \* the questions whose loop body has been entered
    trace        \* the run's observable events, in order

vars == <<call, pc, session, form_data, nq, qi, best_match, field_container, field_type, success, processed, trace>>

runVars == <<pc, session, form_data, nq, qi, best_match, field_container, field_type, success, processed, trace>>

----------------------------------------------------------------------------
(* Bounds of the model.                                                    *)

MaxFields == 2

MaxOptions == 2

MaxQuestions == 2

(* Program constants, in tenths.                                           *)

DefaultThreshold == 5

HighThreshold == 7

LowThreshold == 5

(* The similarities the embedding model may answer: both sides of each     *)
(* threshold, and a negative one.                                          *)
Scores == {-2, 5, 6, 7, 8}

Thresholds == {5, 7, 8}

----------------------------------------------------------------------------
(* Texts: str.lower, str.strip and the substring test `a in b`.            *)

LowerChar(c) ==
    IF c = "A" THEN "a" ELSE IF c = "B" THEN "b" ELSE c

lower(s) == [i \in 1..Len(s) |-> LowerChar(s[i])]

RECURSIVE lstrip(_)
lstrip(s) ==
    IF s # <<>> /\ s[1] = " " THEN lstrip(Tail(s)) ELSE s

RECURSIVE rstrip(_)
rstrip(s) ==
    IF s # <<>> /\ s[Len(s)] = " " THEN rstrip(SubSeq(s, 1, Len(s) - 1)) ELSE s

strip(s) == rstrip(lstrip(s))

\* Python's `a in b` for strings.
Contains(a, b) ==
    \E i \in 0..(Len(b) - Len(a)) : SubSeq(b, i + 1, i + Len(a)) = a

\* The first of the positions in hits, 0 when there is none: a for loop
\* that leaves at its first hit.
FirstOf(hits) ==
    IF hits = {} THEN 0
    ELSE CHOOSE i \in hits : \A j \in hits : i <= j

----------------------------------------------------------------------------
(* find_best_match: sims[f] is the similarity of the question to field f,  *)
(* in the profile's order.  max() keeps the first maximal item and raises  *)
(* ValueError on an empty profile; fault: self.model.encode raises.        *)

RECURSIVE MaxItem(_, _, _)
MaxItem(sims, i, best) ==
    IF i > Len(sims) THEN best
    ELSE MaxItem(sims, i + 1, IF sims[i] > sims[best] THEN i ELSE best)

AcceptsAtStrict(score, threshold) == score > threshold

AcceptsAt(score, threshold) == score >= threshold

find_best_match(sims, threshold, fault) ==
    IF fault \/ Len(sims) = 0
    THEN [raised |-> TRUE, field |-> 0]
    ELSE LET best == MaxItem(sims, 2, 1)
         IN  [raised |-> FALSE,
              field  |-> IF AcceptsAt(sims[best], threshold) THEN best ELSE 0]

----------------------------------------------------------------------------
(* get_field_type: the container is the set of marker kinds it holds;      *)
(* raiseAt is the probe (1..6) whose find_elements raises, 0 for none.     *)

Markers == {"radio", "checkbox", "date_input", "listbox", "textarea", "text_input", "other_input"}

Containers == SUBSET Markers

ProbeOrderSwapped == <<"checkbox", "radio", "date_input", "listbox", "textarea", "text_input">>

ProbeOrder == <<"radio", "checkbox", "date_input", "listbox", "textarea", "text_input">>

TypeOfMarker(m) ==
    CASE m = "radio" -> "radio"
      [] m = "checkbox" -> "checkbox"
      [] m = "date_input" -> "date"
      [] m = "listbox" -> "dropdown"
      [] m = "textarea" -> "textarea"
      [] OTHER -> "text"

get_field_type(container, raiseAt) ==
    LET hits == {i \in 1..Len(ProbeOrder) : i = raiseAt \/ ProbeOrder[i] \in container}
        k == FirstOf(hits)
    IN  IF k = 0 THEN [type |-> "text", raised |-> FALSE]
        ELSE IF k = raiseAt THEN [type |-> "text", raised |-> TRUE]
        ELSE [type |-> TypeOfMarker(ProbeOrder[k]), raised |-> FALSE]

----------------------------------------------------------------------------
(* fill_radio_field and fill_dropdown_field.  options[i] is option i's     *)
(* .text as the driver reports it, sims[i] the similarity of its stripped  *)
(* text to the value.  fault names the driver call that raises:            *)
(*   kind "none"; "find" (enumerating the options); "open" (locating or    *)
(*   clicking the listbox, dropdown only); "text" (reading option at's     *)
(*   text); "click" (clicking the chosen option).                          *)
(* A handler answers [result, clicked, stage, raised]: clicked is the      *)
(* option click() was called on (0: none), raised says whether the         *)
(* handler's except clause ran.                                            *)

NoFault == [kind |-> "none", at |-> 0]

StageOrderPartialFirst == <<"partial", "exact", "semantic">>

StageOrder == <<"exact", "partial", "semantic">>

ExceedsHigh(sim) == sim > HighThreshold

ExceedsLowOrEqual(sim) == sim >= LowThreshold

ExceedsLow(sim) == sim > LowThreshold

ExactMatch(text, value) == lower(value) = lower(strip(text))

PartialMatch(text, value) ==
    \/ Contains(lower(value), lower(strip(text)))
    \/ Contains(lower(strip(text)), lower(value))

Matches(stage, text, value, sim) ==
    CASE stage = "exact" -> ExactMatch(text, value)
      [] stage = "partial" -> PartialMatch(text, value)
      [] stage = "semantic" -> ExceedsHigh(sim)

Raised == [result |-> FALSE, clicked |-> 0, stage |-> "none", raised |-> TRUE]

NotFilled == [result |-> FALSE, clicked |-> 0, stage |-> "none", raised |-> FALSE]

Click(i, stage, fault) ==
    IF fault.kind = "click"
    THEN [result |-> FALSE, clicked |-> i, stage |-> stage, raised |-> TRUE]
    ELSE [result |-> TRUE, clicked |-> i, stage |-> stage, raised |-> FALSE]

Stale(i, fault) == fault.kind = "text" /\ fault.at = i

\* best_match = None, best_similarity = 0; keep the first strictly better.
RECURSIVE BestOption(_, _, _, _)
BestOption(sims, i, best, bestSim) ==
    IF i > Len(sims) THEN [option |-> best, similarity |-> bestSim]
    ELSE IF sims[i] > bestSim THEN BestOption(sims, i + 1, i, sims[i])
    ELSE BestOption(sims, i + 1, best, bestSim)

BestPass(options, sims, fault) ==
    IF \E i \in 1..Len(options) : Stale(i, fault) THEN Raised
    ELSE LET b == BestOption(sims, 1, 0, 0)
         IN  IF b.option # 0 /\ ExceedsLow(b.similarity)
             THEN Click(b.option, "best", fault)
             ELSE NotFilled

RECURSIVE ChoicePasses(_, _, _, _, _)
ChoicePasses(k, options, sims, value, fault) ==
    IF k > Len(StageOrder) THEN BestPass(options, sims, fault)
    ELSE LET hits == {i \in 1..Len(options) :
                          Stale(i, fault) \/ Matches(StageOrder[k], options[i], value, sims[i])}
             e == FirstOf(hits)
         IN  IF e = 0 THEN ChoicePasses(k + 1, options, sims, value, fault)
             ELSE IF Stale(e, fault) THEN Raised
             ELSE Click(e, StageOrder[k], fault)

fill_radio_field(options, sims, value, fault) ==
    IF fault.kind = "find" THEN Raised
    ELSE ChoicePasses(1, options, sims, value, fault)

fill_dropdown_field(options, sims, value, fault) ==
    IF fault.kind \in {"open", "find"} THEN Raised
    ELSE ChoicePasses(1, options, sims, value, fault)

----------------------------------------------------------------------------
(* fill_text_field.  Selector k of input_types locates an element when the *)
(* container holds a marker it selects.  faults[k] is what the driver      *)
(* does in the attempt at selector k: step "none", or the step that raises *)
(* ("find", "clear", "send") and whether the exception is a                *)
(* NoSuchElementException ("nse") or another one ("other").  The inner try *)
(* covers the three calls: NoSuchElementException from any of them goes on *)
(* to the next selector, any other exception leaves for the outer except.  *)

InputTypesTextareaFirst == <<{"textarea"}, {"text_input", "date_input", "other_input"}, {"text_input"}>>

InputTypes == <<{"text_input"}, {"text_input", "date_input", "other_input"}, {"textarea"}>>

Locates(k, container) == InputTypes[k] \cap container # {}

\* the for loop from selector k on; skipped: the selectors whose element
\* was located and given up on a NoSuchElementException
RECURSIVE TextAttempts(_, _, _, _)
TextAttempts(k, container, faults, skipped) ==
    IF k > Len(InputTypes)
    THEN [result |-> FALSE, selector |-> 0, cleared |-> FALSE, written |-> FALSE,
          raised |-> FALSE, skipped |-> skipped]
    ELSE IF faults[k].step = "find" /\ faults[k].exc = "other"
    THEN [result |-> FALSE, selector |-> 0, cleared |-> FALSE, written |-> FALSE,
          raised |-> TRUE, skipped |-> skipped]
    ELSE IF ~Locates(k, container) \/ faults[k].step = "find"
    THEN TextAttempts(k + 1, container, faults, skipped)
    ELSE IF faults[k].step = "none"
    THEN [result |-> TRUE, selector |-> k, cleared |-> TRUE, written |-> TRUE,
          raised |-> FALSE, skipped |-> skipped]
    ELSE IF faults[k].exc = "nse"
    THEN TextAttempts(k + 1, container, faults, skipped \cup {k})
    ELSE [result |-> FALSE, selector |-> k, cleared |-> faults[k].step = "send",
          written |-> FALSE, raised |-> TRUE, skipped |-> skipped]

fill_text_field(container, faults) == TextAttempts(1, container, faults, {})

----------------------------------------------------------------------------
(* Dates: datetime.strptime(date_str, "%m/%d/%Y"), strftime("%Y-%m-%d"),   *)
(* str(n) and str.zfill(2).                                                *)

DigitChars == <<"0", "1", "2", "3", "4", "5", "6", "7", "8", "9">>

IsDigit(c) == \E i \in 1..Len(DigitChars) : DigitChars[i] = c

DigitVal(c) == (CHOOSE i \in 1..Len(DigitChars) : DigitChars[i] = c) - 1

AllDigits(s) == \A i \in 1..Len(s) : IsDigit(s[i])

RECURSIVE ToNat(_)
ToNat(s) ==
    IF s = <<>> THEN 0
    ELSE 10 * ToNat(SubSeq(s, 1, Len(s) - 1)) + DigitVal(s[Len(s)])

\* str(n) for n >= 0
RECURSIVE str(_)
str(n) ==
    IF n < 10 THEN <<DigitChars[n + 1]>>
    ELSE str(n \div 10) \o <<DigitChars[(n % 10) + 1]>>

RECURSIVE zfill(_, _)
zfill(s, width) ==
    IF Len(s) >= width THEN s ELSE zfill(<<"0">> \o s, width)

IsLeap(y) == (y % 4 = 0 /\ y % 100 # 0) \/ y % 400 = 0

DaysIn(m, y) ==
    IF m = 2 THEN (IF IsLeap(y) THEN 29 ELSE 28)
    ELSE IF m \in {4, 6, 9, 11} THEN 30 ELSE 31

\* The day a %d field reads: one or two digits, or a blank and a digit
\* from 1 to 9; 0 where the text is no %d field.
DayField(ds) ==
    IF Len(ds) \in {1, 2} /\ AllDigits(ds) THEN ToNat(ds)
    ELSE IF Len(ds) = 2 /\ ds[1] = " " /\ IsDigit(ds[2]) THEN DigitVal(ds[2])
    ELSE 0

\* The parsed date [ok, month, day, year]; ok is FALSE where strptime
\* raises ValueError.
strptime(date_str) ==
    LET slashes == {i \in 1..Len(date_str) : date_str[i] = "/"}
        bad == [ok |-> FALSE, month |-> 0, day |-> 0, year |-> 0]
    IN  IF Cardinality(slashes) # 2 THEN bad
        ELSE LET p1 == CHOOSE i \in slashes : \A j \in slashes : i <= j
                 p2 == CHOOSE i \in slashes : \A j \in slashes : j <= i
                 ms == SubSeq(date_str, 1, p1 - 1)
                 ds == SubSeq(date_str, p1 + 1, p2 - 1)
                 ys == SubSeq(date_str, p2 + 1, Len(date_str))
             IN  IF /\ AllDigits(ms) /\ Len(ms) \in {1, 2}
                    /\ AllDigits(ys) /\ Len(ys) = 4
                    /\ ToNat(ms) \in 1..12
                    /\ ToNat(ys) >= 1
                    /\ DayField(ds) \in 1..DaysIn(ToNat(ms), ToNat(ys))
                 THEN [ok |-> TRUE, month |-> ToNat(ms), day |-> DayField(ds), year |-> ToNat(ys)]
                 ELSE bad

\* date_obj.strftime("%Y-%m-%d"), for the years from 1000 on (below, the
\* padding of %Y is the C library's choice)
strftime(d) ==
    str(d.year) \o <<"-">> \o zfill(str(d.month), 2) \o <<"-">> \o zfill(str(d.day), 2)

\* The driver calls of the keys technique (b), in order: the click, then
\* send_keys of the year, TAB, the month, TAB, the day.
KeysCalls == <<"click", "year", "tab1", "month", "tab2", "day">>

\* what a call of technique b sends to the element
KeysPayload(c, d) ==
    CASE c = "year" -> str(d.year)
      [] c = "month" -> zfill(str(d.month), 2)
      [] c = "day" -> zfill(str(d.day), 2)
      [] c \in {"tab1", "tab2"} -> <<"TAB">>
      [] OTHER -> <<>>

\* the keys the element has received when the first n calls of technique b
\* have returned
RECURSIVE KeysTyped(_, _)
KeysTyped(n, d) ==
    IF n = 0 THEN <<>> ELSE KeysTyped(n - 1, d) \o KeysPayload(KeysCalls[n], d)

\* The keys technique (b) sends: year, TAB, month, TAB, day.
SegmentedKeys(d) == KeysTyped(Len(KeysCalls), d)

----------------------------------------------------------------------------
(* fill_date_field.  faults is the set of driver calls that raise:         *)
(* "clear" (date_input.clear), "send" (technique a), the calls of          *)
(* technique b (KeysCalls), "script" (technique c).  A call that raises    *)
(* has sent nothing; technique b stops at its first call that raises, with *)
(* the keys of its earlier calls typed.  The answer lists the techniques   *)
(* attempted, in order, the keys the element received through send_keys    *)
(* (written), the value the script assigned (assigned) and whether the     *)
(* click of technique b reached the element (clicked).                     *)

DateFaults == {"clear", "send", "script"} \cup {KeysCalls[i] : i \in 1..Len(KeysCalls)}

Techniques == <<"send", "keys", "script">>

\* the first call of technique b that raises, 0 when none does
KeysStop(faults) == FirstOf({i \in 1..Len(KeysCalls) : KeysCalls[i] \in faults})

\* whether technique t raises
TechniqueRaises(t, faults) ==
    IF t = "keys" THEN KeysStop(faults) # 0 ELSE t \in faults

\* the keys technique t has typed when it ends
TechniqueWrites(t, d, faults) ==
    IF t = "send" THEN (IF "send" \in faults THEN <<>> ELSE strftime(d))
    ELSE IF t = "keys"
    THEN (IF KeysStop(faults) = 0 THEN SegmentedKeys(d) ELSE KeysTyped(KeysStop(faults) - 1, d))
    ELSE <<>>

RECURSIVE TryTechniques(_, _, _, _, _)
TryTechniques(k, d, faults, attempts, written) ==
    LET clicked == (\E i \in 1..Len(attempts) : attempts[i] = "keys") /\ "click" \notin faults
    IN  IF k > Len(Techniques)
        THEN [result |-> FALSE, attempts |-> attempts, written |-> written,
              assigned |-> <<>>, clicked |-> clicked, raised |-> FALSE]
        ELSE IF TechniqueRaises(Techniques[k], faults)
        THEN TryTechniques(k + 1, d, faults, Append(attempts, Techniques[k]),
                           written \o TechniqueWrites(Techniques[k], d, faults))
        ELSE [result |-> TRUE, attempts |-> Append(attempts, Techniques[k]),
              written |-> written \o TechniqueWrites(Techniques[k], d, faults),
              assigned |-> IF Techniques[k] = "script" THEN strftime(d) ELSE <<>>,
              clicked |-> clicked \/ Techniques[k] = "keys",
              raised |-> FALSE]

fill_date_field(date_str, container, faults) ==
    LET d == strptime(date_str)
        caught == [result |-> FALSE, attempts |-> <<>>, written |-> <<>>,
                   assigned |-> <<>>, clicked |-> FALSE, raised |-> TRUE]
    IN  IF ~d.ok THEN caught
        ELSE IF "date_input" \notin container THEN caught
        ELSE IF "clear" \in faults THEN caught
        ELSE TryTechniques(1, d, faults, <<>>, <<>>)

----------------------------------------------------------------------------
(* The inputs the handlers are applied to.                                 *)

\* option texts: "", "a", " AB", "abc", "c"
OptionTexts == {<<>>, <<"a">>, <<" ", "A", "B">>, <<"a", "b", "c">>, <<"c">>}

\* profile values offered to the choice handlers: "Ab", "c", "c ", ""
\* (the handlers do not strip the value)
ValueTexts == {<<"A", "b">>, <<"c">>, <<"c", " ">>, <<>>}

\* "03/07/2024", "3/ 7/2024", "2/29/2024", "02/30/2024", "13/01/2024", "Ab"
DateTexts ==
    { <<"0", "3", "/", "0", "7", "/", "2", "0", "2", "4">>,
      <<"3", "/", " ", "7", "/", "2", "0", "2", "4">>,
      <<"2", "/", "2", "9", "/", "2", "0", "2", "4">>,
      <<"0", "2", "/", "3", "0", "/", "2", "0", "2", "4">>,
      <<"1", "3", "/", "0", "1", "/", "2", "0", "2", "4">>,
      <<"A", "b">> }

\* the containers offered to fill_date_field, which looks for a date input
\* only
DateContainers == SUBSET {"date_input", "text_input", "textarea"}

\* The embedding of a text is a function of the text: options with the
\* same stripped text have the same similarity to the value.
ConsistentSims(options, sims) ==
    \A i, j \in 1..Len(options) :
        strip(options[i]) = strip(options[j]) => sims[i] = sims[j]

ChoiceFaults(n) ==
    {[kind |-> k, at |-> 0] : k \in {"none", "find", "click"}}
        \cup {[kind |-> "text", at |-> i] : i \in 1..n}

\* what the driver does in one attempt of fill_text_field
TextFault ==
    {[step |-> "none", exc |-> "none"]}
        \cup {[step |-> st, exc |-> e] : st \in {"find", "clear", "send"}, e \in {"nse", "other"}}

TextFaults == [1..Len(InputTypes) -> TextFault]

Idle == [op |-> "idle"]

----------------------------------------------------------------------------
(* One invocation of one handler on inputs drawn from the sets above.      *)

CallFindBestMatch ==
    /\ call = Idle
    /\ \E n \in 0..MaxFields : \E sims \in [1..n -> Scores] : \E threshold \in Thresholds :
       \E fault \in BOOLEAN :
          call' = [op |-> "find_best_match", sims |-> sims, threshold |-> threshold,
                   fault |-> fault, out |-> find_best_match(sims, threshold, fault)]
    /\ UNCHANGED runVars

CallGetFieldType ==
    /\ call = Idle
    /\ \E container \in Containers : \E raiseAt \in 0..Len(ProbeOrder) :
          call' = [op |-> "get_field_type", container |-> container, raiseAt |-> raiseAt,
                   out |-> get_field_type(container, raiseAt)]
    /\ UNCHANGED runVars

CallFillDateField ==
    /\ call = Idle
    /\ \E date_str \in DateTexts : \E container \in DateContainers : \E faults \in SUBSET DateFaults :
          call' = [op |-> "fill_date_field", date_str |-> date_str, container |-> container,
                   faults |-> faults, out |-> fill_date_field(date_str, container, faults)]
    /\ UNCHANGED runVars

CallFillRadioField ==
    /\ call = Idle
    /\ \E n \in 0..MaxOptions : \E options \in [1..n -> OptionTexts] : \E sims \in [1..n -> Scores] :
       \E value \in ValueTexts : \E fault \in ChoiceFaults(n) :
          /\ ConsistentSims(options, sims)
          /\ call' = [op |-> "fill_radio_field", options |-> options, sims |-> sims,
                      value |-> value, fault |-> fault,
                      out |-> fill_radio_field(options, sims, value, fault)]
    /\ UNCHANGED runVars

CallFillDropdownField ==
    /\ call = Idle
    /\ \E n \in 0..MaxOptions : \E options \in [1..n -> OptionTexts] : \E sims \in [1..n -> Scores] :
       \E value \in ValueTexts : \E fault \in ChoiceFaults(n) \cup {[kind |-> "open", at |-> 0]} :
          /\ ConsistentSims(options, sims)
          /\ call' = [op |-> "fill_dropdown_field", options |-> options, sims |-> sims,
                      value |-> value, fault |-> fault,
                      out |-> fill_dropdown_field(options, sims, value, fault)]
    /\ UNCHANGED runVars

CallFillTextField ==
    /\ call = Idle
    /\ \E container \in Containers : \E faults \in TextFaults :
          call' = [op |-> "fill_text_field", container |-> container, faults |-> faults,
                   out |-> fill_text_field(container, faults)]
    /\ UNCHANGED runVars

CallInit ==
    /\ call = Idle
    /\ pc = "handlers"
    /\ session = "none"
    /\ form_data = <<>>
    /\ nq = 0
    /\ qi = 0
    /\ best_match = 0
    /\ field_container = {}
    /\ field_type = "none"
    /\ success = "none"
    /\ processed = {}
    /\ trace = <<>>

CallNext ==
    \/ CallFindBestMatch
    \/ CallGetFieldType
    \/ CallFillDateField
    \/ CallFillRadioField
    \/ CallFillDropdownField
    \/ CallFillTextField

CallSpec == CallInit /\ [][CallNext]_vars

----------------------------------------------------------------------------
(* run() and fill_form(), one action per step.  The local variables of the *)
(* loop body (best_match, field_container, field_type, success) are cleared when *)
(* the loop moves to the next question.                                    *)

\* profile values: "Ab", "03/07/2024"
ProfileValues == {<<"A", "b">>, <<"0", "3", "/", "0", "7", "/", "2", "0", "2", "4">>}

\* The name of field i of the profile is "" or "f<i>": the keys of
\* user_data.json are distinct, so at most one of them is the empty string.
FieldNames(i) == {<<>>, <<"f">> \o str(i)}

\* user_data.json holds at least one field: the constructor encodes the
\* field names, and the loaded profile is not changed afterwards.
Profiles ==
    UNION { {p \in [1..n -> [name : UNION {FieldNames(i) : i \in 1..n}, value : ProfileValues]] :
                /\ \A i \in 1..n : p[i].name \in FieldNames(i)
                /\ \A i, j \in 1..n : (i # j) => p[i].name # p[j].name} :
            n \in 1..MaxFields }

\* bool(s) of a str
Truthy(s) == Len(s) > 0

\* What a choice handler can return for a value, over every list of options
\* and every fault.
ChoiceResults(handler, value) ==
    { IF handler = "radio"
        THEN fill_radio_field(x[1], x[2], value, x[3]).result
        ELSE fill_dropdown_field(x[1], x[2], value, x[3]).result :
      x \in UNION { {y \in [1..n -> OptionTexts] \X [1..n -> Scores] \X
                        (ChoiceFaults(n) \cup {[kind |-> "open", at |-> 0]}) :
                        /\ ConsistentSims(y[1], y[2])
                        /\ (handler = "radio" => y[3].kind # "open")} :
                    n \in 0..MaxOptions } }

RadioResults == [v \in ProfileValues |-> ChoiceResults("radio", v)]

DropdownResults == [v \in ProfileValues |-> ChoiceResults("dropdown", v)]

\* <<value, container, result>> of fill_date_field over every set of faults
DateResults ==
    { <<v, c, fill_date_field(v, c, f).result>> :
        v \in ProfileValues, c \in Containers, f \in SUBSET DateFaults }

\* <<container, result>> of fill_text_field over every course of faults
TextResults ==
    { <<c, fill_text_field(c, f).result>> : c \in Containers, f \in TextFaults }

\* The results the dispatch of fill_form can get from the handler of a type.
FillResults(type, cont, value) ==
    IF type = "date"
    THEN {t[3] : t \in {u \in DateResults : u[1] = value /\ u[2] = cont}}
    ELSE IF type = "radio" THEN RadioResults[value]
    ELSE IF type = "dropdown" THEN DropdownResults[value]
    ELSE {t[2] : t \in {u \in TextResults : u[1] = cont}}

Event(e) == trace' = Append(trace, e)

Events(es) == trace' = trace \o es

ClearLocals ==
    /\ best_match' = 0
    /\ field_container' = {}
    /\ field_type' = "none"
    /\ success' = "none"

\* the for loop takes the next question, or ends
NextQuestion ==
    /\ ClearLocals
    /\ IF qi < nq
       THEN qi' = qi + 1 /\ pc' = "match"
       ELSE qi' = qi /\ pc' = "prompt_review"

Init ==
    /\ call = Idle
    /\ pc = "prompt_url"
    /\ session = "none"
    /\ form_data \in Profiles
    /\ nq = 0
    /\ qi = 0
    /\ best_match = 0
    /\ field_container = {}
    /\ field_type = "none"
    /\ success = "none"
    /\ processed = {}
    /\ trace = <<>>

\* what input() raises when it does not return: EOFError, KeyboardInterrupt
PromptRaises == {"eof", "interrupt"}

\* run: form_url = input(...); when it raises, run ends before setup_driver
PromptUrl ==
    /\ pc = "prompt_url"
    /\ \/ pc' = "setup" /\ Event("prompt_url")
       \/ \E e \in PromptRaises : pc' = "done" /\ Events(<<"prompt_url", e>>)
    /\ UNCHANGED <<call, session, form_data, nq, qi, best_match, field_container, field_type, success, processed>>

\* run: driver = self.setup_driver(); a failure is re-raised out of run
SetupDriver ==
    /\ pc = "setup"
    /\ \/ session' = "open" /\ pc' = "navigate" /\ Event("driver_started")
       \/ session' = session /\ pc' = "done" /\ Event("setup_failed")
    /\ UNCHANGED <<call, form_data, nq, qi, best_match, field_container, field_type, success, processed>>

\* run: driver.get(form_url), then fill_form is entered
Navigate ==
    /\ pc = "navigate"
    /\ \/ pc' = "load" /\ Event("navigated")
       \/ pc' = "run_except" /\ Event("navigate_raised")
    /\ UNCHANGED <<call, session, form_data, nq, qi, best_match, field_container, field_type, success, processed>>

\* fill_form: sleep, questions = self.get_form_questions(driver), which
\* answers [] when it fails
LoadQuestions ==
    /\ pc = "load"
    /\ \E n \in 0..MaxQuestions :
          /\ nq' = n
          /\ qi' = IF n = 0 THEN 0 ELSE 1
          /\ pc' = IF n = 0 THEN "prompt_review" ELSE "match"
    /\ Event("pass_started")
    /\ UNCHANGED <<call, session, form_data, best_match, field_container, field_type, success, processed>>

\* fill_form: best_match = self.find_best_match(question); if best_match:
\* value = self.form_data[best_match]
Match ==
    /\ pc = "match"
    /\ processed' = processed \cup {qi}
    /\ \E sims \in [1..Len(form_data) -> Scores] : \E fault \in BOOLEAN :
          LET r == find_best_match(sims, DefaultThreshold, fault)
          IN  IF r.raised
              THEN /\ pc' = "pass_except"
                   /\ UNCHANGED <<qi, best_match, field_container, field_type, success>>
              ELSE IF r.field = 0 \/ ~Truthy(form_data[r.field].name)
              THEN NextQuestion
              ELSE /\ best_match' = r.field
                   /\ pc' = "locate"
                   /\ UNCHANGED <<qi, field_container, field_type, success>>
    /\ UNCHANGED <<call, session, form_data, nq, trace>>

\* fill_form: field_container = self.find_field_by_text(driver, question),
\* None when no pattern matches or the lookup fails
Locate ==
    /\ pc = "locate"
    /\ \/ \E c \in Containers :
             /\ field_container' = c
             /\ pc' = "classify"
             /\ UNCHANGED <<qi, best_match, field_type, success>>
       \/ NextQuestion
    /\ UNCHANGED <<call, session, form_data, nq, processed, trace>>

\* fill_form: field_type = self.get_field_type(field_container)
Classify ==
    /\ pc = "classify"
    /\ \E raiseAt \in 0..Len(ProbeOrder) :
          field_type' = get_field_type(field_container, raiseAt).type
    /\ pc' = "scroll"
    /\ UNCHANGED <<call, session, form_data, nq, qi, best_match, field_container, success, processed, trace>>

\* fill_form: driver.execute_script("...scrollIntoView...", field_container)
Scroll ==
    /\ pc = "scroll"
    /\ \/ pc' = "fill"
       \/ pc' = "pass_except"
    /\ UNCHANGED <<call, session, form_data, nq, qi, best_match, field_container, field_type, success, processed, trace>>

\* fill_form: success = self.fill_<type>_field(driver, field_container, value)
Fill ==
    /\ pc = "fill"
    /\ \E ok \in FillResults(field_type, field_container, form_data[best_match].value) :
          success' = IF ok THEN "yes" ELSE "no"
    /\ pc' = "report"
    /\ UNCHANGED <<call, session, form_data, nq, qi, best_match, field_container, field_type, processed, trace>>

\* fill_form: print the outcome, sleep, next question
Report ==
    /\ pc = "report"
    /\ NextQuestion
    /\ UNCHANGED <<call, session, form_data, nq, processed, trace>>

\* fill_form: "Press Enter when you're done...", input(); an EOFError is
\* caught by the except clause of the pass, a KeyboardInterrupt is not an
\* Exception and passes through the finally clauses
PromptReview ==
    /\ pc = "prompt_review"
    /\ \/ pc' = "pass_finally" /\ Event("prompt_review")
       \/ pc' = "pass_except" /\ Events(<<"prompt_review", "eof">>)
       \/ pc' = "pass_finally" /\ Events(<<"prompt_review", "interrupt">>)
    /\ UNCHANGED <<call, session, form_data, nq, qi, best_match, field_container, field_type, success, processed>>

\* fill_form: except Exception as e: print(...); the loop is abandoned
PassExcept ==
    /\ pc = "pass_except"
    /\ pc' = "pass_finally"
    /\ Event("pass_error")
    /\ ClearLocals
    /\ UNCHANGED <<call, session, form_data, nq, qi, processed>>

\* fill_form: finally: time.sleep(2); back in run
PassFinally ==
    /\ pc = "pass_finally"
    /\ pc' = "prompt_close"
    /\ Event("pass_ended")
    /\ UNCHANGED <<call, session, form_data, nq, qi, best_match, field_container, field_type, success, processed>>

\* run: except Exception as e: print(...)
RunExcept ==
    /\ pc = "run_except"
    /\ pc' = "prompt_close"
    /\ Event("run_error")
    /\ UNCHANGED <<call, session, form_data, nq, qi, best_match, field_container, field_type, success, processed>>

PromptCloseSkipped ==
    /\ pc = "prompt_close"
    /\ pc' = "quit"
    /\ UNCHANGED <<call, session, form_data, nq, qi, best_match, field_container, field_type, success, processed, trace>>

\* run: finally: input("Press Enter to close the browser..."); when it
\* raises, the finally clause is left before driver.quit()
PromptClose ==
    /\ pc = "prompt_close"
    /\ \/ pc' = "quit" /\ Event("prompt_close")
       \/ \E e \in PromptRaises : pc' = "done" /\ Events(<<"prompt_close", e>>)
    /\ UNCHANGED <<call, session, form_data, nq, qi, best_match, field_container, field_type, success, processed>>

\* run: finally: driver.quit(); when it raises, the exception leaves run
\* and the session has not been closed
Quit ==
    /\ pc = "quit"
    /\ pc' = "done"
    /\ \/ session' = "closed" /\ Event("quit")
       \/ session' = session /\ Event("quit_raised")
    /\ UNCHANGED <<call, form_data, nq, qi, best_match, field_container, field_type, success, processed>>

\* Where a KeyboardInterrupt that arrives outside input() takes the run:
\* it is not an Exception, so no except clause of run, fill_form or a fill
\* handler catches it; it leaves through the finally clauses.  A driver call
\* it interrupts has not taken effect.
\*   setup_driver (re-raised, no session returned): run ends;
\*   driver.get, the except clause of run: the finally clause of run;
\*   fill_form's try block and except clause: the finally clause of the
\*   pass, with neither the error report nor the review prompt.  At the
\*   start of the pass it arrives in the sleep or after the questions were
\*   read; in the matching of a question, after that question was taken
\*   up; after the loop, in the prints that precede the review prompt;
\*   the finally clause of the pass (time.sleep(2)): back in run, whose
\*   finally clause follows;
\*   driver.quit(): run ends with the session open.
Interrupt ==
    /\ pc \in {"setup", "navigate", "load", "match", "locate", "classify", "scroll",
               "fill", "report", "prompt_review", "pass_except", "pass_finally",
               "run_except", "quit"}
    /\ pc' = CASE pc \in {"setup", "quit"} -> "done"
              [] pc \in {"navigate", "run_except", "pass_finally"} -> "prompt_close"
              [] OTHER -> "pass_finally"
    /\ trace' = CASE pc = "load" -> trace \o <<"pass_started", "interrupt">>
                 [] pc = "pass_finally" -> trace \o <<"pass_ended", "interrupt">>
                 [] OTHER -> Append(trace, "interrupt")
    /\ IF pc = "load" THEN nq' \in 0..MaxQuestions ELSE nq' = nq
    /\ processed' = IF pc = "match" THEN processed \cup {qi} ELSE processed
    /\ ClearLocals
    /\ UNCHANGED <<call, session, form_data, qi>>

Next ==
    \/ PromptUrl
    \/ SetupDriver
    \/ Navigate
    \/ LoadQuestions
    \/ Match
    \/ Locate
    \/ Classify
    \/ Scroll
    \/ Fill
    \/ Report
    \/ PromptReview
    \/ PassExcept
    \/ PassFinally
    \/ RunExcept
    \/ PromptClose
    \/ Quit
    \/ Interrupt

Spec == Init /\ [][Next]_vars

\* The program is sequential: a step that can be taken is taken, and a
\* prompt the program waits on returns or raises.  An interrupt is one of
\* the ways a step ends, so fairness of Next does not force one.
FairSpec == Spec /\ WF_vars(Next)

----------------------------------------------------------------------------
(* Properties of the handlers, checked under CallSpec.                     *)

IsChoiceCall == call.op \in {"fill_radio_field", "fill_dropdown_field"}

MaxOf(sims) == CHOOSE m \in {sims[i] : i \in 1..Len(sims)} : \A i \in 1..Len(sims) : sims[i] <= m

\* The option's text, as the handlers read it, equals the value up to case.
EqualsIgnoringCase(i) == lower(strip(call.options[i])) = lower(call.value)

\* One of the two lowered texts is a substring of the other.
SubstringEitherWay(i) ==
    LET t == lower(strip(call.options[i]))
        v == lower(call.value)
    IN  (\E a \in 0..(Len(t) - Len(v)) : SubSeq(t, a + 1, a + Len(v)) = v)
        \/ (\E a \in 0..(Len(v) - Len(t)) : SubSeq(v, a + 1, a + Len(t)) = t)

\* C1: for a non-empty profile whose question the encoder embeds,
\* find_best_match returns a field of maximal similarity when that maximum
\* is >= threshold and None (0) when it is below; a field returned at
\* threshold t is returned at every t' <= t.
C1_BestMatch ==
    (call.op = "find_best_match" /\ Len(call.sims) > 0 /\ ~call.fault) =>
        LET max == MaxOf(call.sims)
        IN  /\ ~call.out.raised
            /\ max >= call.threshold =>
                  (call.out.field \in 1..Len(call.sims) /\ call.sims[call.out.field] = max)
            /\ max < call.threshold => call.out.field = 0
            /\ \A t \in Thresholds :
                  (t <= call.threshold /\ call.out.field # 0) =>
                      find_best_match(call.sims, t, FALSE).field = call.out.field

\* A second field wins at the highest threshold that still accepts it.
C1_Witness ==
    /\ call.op = "find_best_match"
    /\ ~call.fault
    /\ Len(call.sims) = 2
    /\ call.sims[2] > call.sims[1]
    /\ call.threshold = 7
    /\ call.sims[2] = 7
    /\ call.out.field = 2

\* C2: when some option's text equals the value case-insensitively, the
\* option click() is called on is such an option, whatever the order of the
\* options and their similarities; when no driver call raises, one is
\* clicked, by the exact stage, and the handler returns true.
C2_ExactFirst ==
    (IsChoiceCall /\ \E i \in 1..Len(call.options) : EqualsIgnoringCase(i)) =>
        /\ call.out.clicked # 0 => EqualsIgnoringCase(call.out.clicked)
        /\ call.fault.kind = "none" =>
              (call.out.result /\ call.out.clicked # 0 /\ call.out.stage = "exact")

\* An earlier option that contains the value and is semantically closer is
\* passed over for the later exact match.
C2_Witness ==
    /\ IsChoiceCall
    /\ call.fault.kind = "none"
    /\ Len(call.options) = 2
    /\ call.value = <<"A", "b">>
    /\ call.options[1] = <<"a", "b", "c">>
    /\ call.options[2] = <<" ", "A", "B">>
    /\ call.sims[1] > HighThreshold
    /\ call.sims[2] <= LowThreshold
    /\ call.out.clicked = 2
    /\ call.out.result

\* C3: with no exact and no substring match and no driver call raising, the
\* first option with similarity > 0.7 is clicked and true returned; else
\* the option of highest similarity is clicked and true returned if that
\* similarity is > 0.5; else nothing is clicked and false is returned.
C3_SemanticFallback ==
    ( /\ IsChoiceCall
      /\ call.fault.kind = "none"
      /\ \A i \in 1..Len(call.options) : ~EqualsIgnoringCase(i) /\ ~SubstringEitherWay(i) ) =>
        LET n == Len(call.options)
            high == {i \in 1..n : call.sims[i] > HighThreshold}
        IN  IF high # {}
            THEN /\ call.out.result
                 /\ call.out.clicked \in high
                 /\ \A j \in high : call.out.clicked <= j
            ELSE IF n > 0 /\ MaxOf(call.sims) > LowThreshold
            THEN /\ call.out.result
                 /\ call.out.clicked \in 1..n
                 /\ call.sims[call.out.clicked] = MaxOf(call.sims)
            ELSE /\ ~call.out.result
                 /\ call.out.clicked = 0

\* The best-score stage picks the later, better option below 0.7.
C3_Witness ==
    /\ IsChoiceCall
    /\ call.fault.kind = "none"
    /\ Len(call.options) = 2
    /\ \A i \in 1..2 : ~EqualsIgnoringCase(i) /\ ~SubstringEitherWay(i)
    /\ call.sims = <<6, 7>>
    /\ call.out.clicked = 2
    /\ call.out.stage = "best"
    /\ call.out.result

\* a driver call of technique t raises in the call at hand
Raises(t) ==
    IF t = "keys"
    THEN call.faults \cap {"click", "year", "tab1", "month", "tab2", "day"} # {}
    ELSE t \in call.faults

\* C5: for a value that parses and a container with a date input, the
\* techniques are attempted in the order send, keys, script, each only if
\* the earlier ones raised; true at the first that does not raise; false
\* only after all three were attempted and raised; the call never raises.
C5_DateFallback ==
    ( /\ call.op = "fill_date_field"
      /\ strptime(call.date_str).ok
      /\ "date_input" \in call.container ) =>
        LET a == call.out.attempts
            order == <<"send", "keys", "script">>
        IN  /\ Len(a) <= 3
            /\ \A k \in 1..Len(a) : a[k] = order[k]
            /\ \A k \in 1..(Len(a) - 1) : Raises(a[k])
            /\ call.out.result => (Len(a) >= 1 /\ ~Raises(a[Len(a)]))
            /\ ~call.out.result => (a = order /\ \A k \in 1..3 : Raises(order[k]))

\* The first of: text-typed input, any input, textarea, that the container
\* holds (0: none).
FirstLocating(container) ==
    IF "text_input" \in container THEN 1
    ELSE IF container \cap {"date_input", "other_input"} # {} THEN 2
    ELSE IF "textarea" \in container THEN 3
    ELSE 0

\* every driver call of the attempt at selector k returns
Clean(k) == call.faults[k].step = "none"

\* the attempt at selector k ends in a NoSuchElementException: nothing is
\* located, or a call on the located element raises it
GivenUp(k) ==
    \/ ~Locates(k, call.container) /\ ~(call.faults[k].step = "find" /\ call.faults[k].exc = "other")
    \/ call.faults[k].step # "none" /\ call.faults[k].exc = "nse"

\* C6 as stated: the first selector that locates an element has it cleared
\* and written and the call returns true; false only if no selector
\* locates an element.
C6_FalseOnlyIfNoneLocated ==
    call.op = "fill_text_field" =>
        (FirstLocating(call.container) # 0 =>
            /\ call.out.result
            /\ call.out.selector = FirstLocating(call.container)
            /\ call.out.cleared /\ call.out.written)

\* C6 amended: the selectors are tried in order; an attempt that ends in a
\* NoSuchElementException (nothing located, or clear or send_keys raising
\* it) goes on to the next selector, an attempt in which a driver call
\* raises anything else ends the call with false and nothing written, and
\* the first attempt that locates, clears and writes without raising ends
\* it with true.  False is returned exactly when no attempt gets that far;
\* when no driver call raises, true is returned exactly when some selector
\* locates an element, and the first such selector's element is written.
C6_FalseIfNoneLocatedOrRaised ==
    call.op = "fill_text_field" =>
        /\ call.out.result <=>
              \E k \in 1..3 :
                 /\ Locates(k, call.container) /\ Clean(k)
                 /\ \A j \in 1..(k - 1) : GivenUp(j)
        /\ call.out.result =>
              /\ Locates(call.out.selector, call.container) /\ Clean(call.out.selector)
              /\ \A j \in 1..(call.out.selector - 1) : GivenUp(j)
              /\ call.out.cleared /\ call.out.written
        /\ ~call.out.result => ~call.out.written
        /\ call.out.raised <=>
              \E k \in 1..3 :
                 /\ call.faults[k].exc = "other"
                 /\ call.faults[k].step = "find" \/ Locates(k, call.container)
                 /\ \A j \in 1..(k - 1) : GivenUp(j)
        /\ (\A k \in 1..3 : Clean(k)) =>
              /\ call.out.result <=> FirstLocating(call.container) # 0
              /\ call.out.selector = FirstLocating(call.container)

\* clear() of the text input raises NoSuchElementException in the first two
\* attempts; the textarea is then cleared and written and the call returns
\* true.
C6_Witness ==
    /\ call.op = "fill_text_field"
    /\ call.container = {"text_input", "textarea"}
    /\ call.faults[1] = [step |-> "clear", exc |-> "nse"]
    /\ call.faults[2] = [step |-> "clear", exc |-> "nse"]
    /\ Clean(3)
    /\ call.out.result
    /\ call.out.selector = 3
    /\ call.out.skipped = {1, 2}

ExpectedType(container) ==
    IF "radio" \in container THEN "radio"
    ELSE IF "checkbox" \in container THEN "checkbox"
    ELSE IF "date_input" \in container THEN "date"
    ELSE IF "listbox" \in container THEN "dropdown"
    ELSE IF "textarea" \in container THEN "textarea"
    ELSE "text"

\* C7: get_field_type returns the type of the first marker present in the
\* order radio, checkbox, date, dropdown, textarea, text; text when none is
\* present and when a probe raises; it always returns.
C7_FieldTypePriority ==
    call.op = "get_field_type" =>
        /\ call.out.raised => call.out.type = "text"
        /\ ~call.out.raised => call.out.type = ExpectedType(call.container)
        /\ call.raiseAt = 0 => ~call.out.raised
        /\ call.raiseAt = 1 => call.out.raised

\* A radio marker together with a checkbox marker and a text input.
C7_Witness ==
    /\ call.op = "get_field_type"
    /\ call.container = {"radio", "checkbox", "text_input"}
    /\ call.raiseAt = 0
    /\ call.out.type = "radio"

\* C10: for a non-empty value the exact and partial stages never click an
\* option whose stripped text is empty.
C10_NoEmptyTextClicked ==
    ( /\ IsChoiceCall
      /\ call.value # <<>>
      /\ call.out.stage \in {"exact", "partial"}
      /\ call.out.clicked # 0 ) =>
        strip(call.options[call.out.clicked]) # <<>>

----------------------------------------------------------------------------
(* Properties of the fill pass and of run, checked under Spec / FairSpec.  *)

IsPrompt(e) == e \in {"prompt_url", "prompt_review", "prompt_close"}

PromptsOf(t) == SelectSeq(t, IsPrompt)

Occurred(e) == \E i \in 1..Len(trace) : trace[i] = e

\* e happened, and before every occurrence of f
Before(e, f) ==
    /\ Occurred(e)
    /\ \A i, j \in 1..Len(trace) : (trace[i] = e /\ trace[j] = f) => i < j

PassEnded == Occurred("pass_ended")

CompleteRun == pc = "done" /\ session = "closed"

\* no prompt has raised and no KeyboardInterrupt has arrived
Undisturbed == ~Occurred("interrupt") /\ ~Occurred("eof")

\* C4: a failure while processing one question (an exception of the
\* encoder or of a driver call) is contained to it: when the pass has ended,
\* with no interrupt and no prompt raising, every question was processed and
\* the review prompt was reached.
C4_FailureContained ==
    (PassEnded /\ Undisturbed) => (processed = 1..nq /\ Occurred("prompt_review"))

\* C8: a session that setup_driver returned is eventually closed, and it is
\* closed only with run at its end: never while a fill pass that was
\* entered has not ended.
C8_SessionClosed ==
    /\ [](session = "open" => <>(session = "closed"))
    /\ [](session = "closed" =>
            (pc = "done" /\ (Occurred("pass_started") => Before("pass_ended", "quit"))))

\* the run is over
Finished == pc = "done"

\* the pass was left before its review prompt: after it started, and before
\* any review prompt and before it ended, it failed or was interrupted
CutBeforeReview ==
    \E i \in 1..Len(trace) :
       /\ trace[i] \in {"pass_error", "interrupt"}
       /\ \E j \in 1..(i - 1) : trace[j] = "pass_started"
       /\ \A j \in 1..(i - 1) : trace[j] \notin {"prompt_review", "pass_ended"}

\* C9 as stated: a complete run blocks on exactly two prompts, the URL
\* prompt first.
C9_ExactlyTwoPrompts ==
    CompleteRun =>
        (Len(PromptsOf(trace)) = 2 /\ PromptsOf(trace)[1] = "prompt_url")

\* C9 amended: a run blocks on the URL prompt before the browser is
\* started, on the close prompt once a session exists and the run reaches
\* its finally clause, right before driver.quit, and, in between, on the
\* review prompt exactly when the pass gets to it: when the pass was
\* started and neither an exception nor a KeyboardInterrupt ended it
\* before (in the loop, or in the prints that follow the loop); no other
\* prompt occurs.  A run that closes the session has thus blocked on
\* three prompts or on two; when it blocked on the review prompt every
\* question had been processed.  A run that ends with the session open
\* ends at the close prompt raising or at driver.quit raising.
C9_TwoOrThreePrompts ==
    /\ Finished =>
          /\ PromptsOf(trace) \in { <<"prompt_url">>,
                                   <<"prompt_url", "prompt_close">>,
                                   <<"prompt_url", "prompt_review", "prompt_close">> }
          /\ trace[1] = "prompt_url"
          /\ session # "none" => Occurred("prompt_close")
          /\ session = "open" =>
                /\ trace[Len(trace) - 1] = "prompt_close"
                /\ trace[Len(trace)] \in PromptRaises \cup {"quit_raised"}
    /\ CompleteRun =>
          /\ PromptsOf(trace) \in { <<"prompt_url", "prompt_review", "prompt_close">>,
                                   <<"prompt_url", "prompt_close">> }
          /\ Before("prompt_url", "driver_started")
          /\ trace[Len(trace)] = "quit" /\ trace[Len(trace) - 1] = "prompt_close"
          /\ Occurred("prompt_review") <=> (Occurred("pass_started") /\ ~CutBeforeReview)
          /\ Occurred("prompt_review") =>
                /\ processed = 1..nq
                /\ Before("pass_started", "prompt_review")
                /\ Before("prompt_review", "pass_ended")
                /\ Before("pass_ended", "prompt_close")

\* A pass over two questions that ends normally: three prompts.
C9_Witness ==
    /\ CompleteRun
    /\ Undisturbed
    /\ nq = 2
    /\ processed = {1, 2}
    /\ PromptsOf(trace) = <<"prompt_url", "prompt_review", "prompt_close">>

====
